---- MODULE Spec2Model ----
(***************************************************************************)
(* CNN hyperparameter playground: the scan controller of the component     *)
(* CnnHyperparamPlayground (hyperparameter state, the two effects that     *)
(* clamp the selected output cell and drive the scan timer, the click,     *)
(* preset and toggle handlers), in its two variants, and the geometry,     *)
(* validation, sample data and convolution of the full variant.            *)
(*                                                                         *)
(* One step of the model is one browser event (a slider edit, a button     *)
(* click, a timer tick, the unmount) together with the render it causes    *)
(* and the effects React runs after that render, in declaration order.     *)
(***************************************************************************)
EXTENDS Integers, Sequences, FiniteSets

VARIABLES
    variant,        \* "full" (CnnHyperparamPlayground.tsx) or "simple" (part_001)
    mounted,        \* the component instance is mounted
    inW, inH, kernel, stride, padding, dilation,
    animate, animSpeed, jumpAnimation,
    selectedOut,    \* Null or <<x, y>>
    showNumbers, showPadding, showValues,
    kernelType,     \* key of kernelTypes chosen in the kernel select
    id,             \* the interval created by the animation effect is live
    ix,             \* `let ix` of the live effect closure
    scanW,          \* outW captured by the live effect closure
    total,          \* `const total` of the live effect closure
    ticks           \* history: ticks since the live interval was created or since its
                    \* last full cycle (0 only before the first tick)

VARIABLES clamped   \* history: the clamp effect of the last step changed its selection

vars == <<variant, mounted, inW, inH, kernel, stride, padding, dilation,
          animate, animSpeed, jumpAnimation, selectedOut,
          showNumbers, showPadding, showValues, kernelType,
          id, ix, scanW, total, ticks, clamped>>

-----------------------------------------------------------------------------
(* Bounds of the model. *)
MaxIn == 5
MaxKernel == 3
MaxStride == 3
MaxPadding == 1
MaxDilation == 2
MaxSpeedStep == 0
MaxClick == 1

(* Slider ranges of the component. *)
MinIn == 4
MinKernel == 1
KernelStep == 2
MinStride == 1
MinPadding == 0
MinDilation == 1
SpeedSliderMin == 60
SpeedSliderStep == 20
SpeedOffset == 860

InSizes == MinIn..MaxIn
KernelSizes == {k \in MinKernel..MaxKernel : (k - MinKernel) % KernelStep = 0}
Strides == MinStride..MaxStride
Paddings == MinPadding..MaxPadding
Dilations == MinDilation..MaxDilation
Speeds == {SpeedOffset - (SpeedSliderMin + SpeedSliderStep * i) : i \in 0..MaxSpeedStep}

Null == <<>>

presets ==
    << [kernel |-> 3, stride |-> 1, padding |-> 1, dilation |-> 1],
       [kernel |-> 3, stride |-> 1, padding |-> 0, dilation |-> 1],
       [kernel |-> 3, stride |-> 2, padding |-> 1, dilation |-> 1],
       [kernel |-> 5, stride |-> 1, padding |-> 2, dilation |-> 1],
       [kernel |-> 3, stride |-> 1, padding |-> 2, dilation |-> 2] >>

-----------------------------------------------------------------------------
(* Derived values. *)
Min(a, b) == IF a < b THEN a ELSE b
Max(a, b) == IF a > b THEN a ELSE b

\* Variation: every tap but none of the gaps counted d times
EffKernelSpan(k, d) == k * d

EffKernel(k, d) == (k - 1) * d + 1

\* Variation: the quotient is truncated toward zero before the 1 is added
OutDimTrunc(in, p, eff, s) ==
    LET n == in + 2 * p - eff
    IN  IF n >= 0 THEN (n \div s) + 1 ELSE 1 - ((0 - n) \div s)

\* Math.floor(n / stride + 1): the 1 is added to the real quotient n / stride and
\* the sum (n + stride) / stride is floored
OutDim(in, p, eff, s) == (in + 2 * p - eff + s) \div s

effKernel == EffKernel(kernel, dilation)
outW == OutDim(inW, padding, effKernel, stride)
outH == OutDim(inH, padding, effKernel, stride)

\* Variation: the button is never disabled
disabledOutNever == FALSE

disabledOut == outW <= 0 \/ outH <= 0

-----------------------------------------------------------------------------
(* The two effects. *)

\* Variation: the clamp effect does nothing
ClampSelectedOff(sel, w, h) == sel

\* Variation: the clamp effect moves an out-of-range selection to the last cell
ClampSelectedCorner(sel, w, h) ==
    IF sel = Null THEN sel
    ELSE IF sel[1] >= w \/ sel[2] >= h
         THEN IF w > 0 /\ h > 0 THEN <<w - 1, h - 1>> ELSE Null
         ELSE sel

\* Clamp effect body: the value selectedOut has after it ran against sel
ClampSelected(sel, w, h) ==
    IF sel = Null THEN sel
    ELSE IF sel[1] >= w \/ sel[2] >= h
         THEN IF w > 0 /\ h > 0
              THEN <<Min(sel[1], Max(0, w - 1)), Min(sel[2], Max(0, h - 1))>>
              ELSE Null
         ELSE sel

\* Dependency array of the animation effect
AnimDeps(v, a, w, h, speed, jump, s) ==
    IF v = "full" THEN <<a, w, h, speed, jump, s>> ELSE <<a, w, h, speed>>

\* Variation: the early return tests the running flag only
AnimGuardNoDims(a, w, h) == a

\* The animation effect goes past its early return
AnimGuard(a, w, h) == a /\ w > 0 /\ h > 0

\* Variation: the effect returns no cleanup, the interval is never cleared
ClearIntervalLeak(live) == live

\* Cleanup of the animation effect: is the interval still live afterwards
ClearInterval(live) == FALSE

\* Interval callback: the coordinate it selects and the counter it leaves
TickCoord(i, w) == <<i % w, i \div w>>
NextIx(i, t) == (i + 1) % t

\* One render with the given new state values, followed by the effects whose
\* dependencies changed: first the clamp effect, then the animation effect
\* (cleanup of the previous run, then the new run). Both effects call
\* setSelectedOut with a plain value, so the later call wins.
Render(nInW, nInH, nKernel, nStride, nPadding, nDilation, nAnimate, nAnimSpeed, nJump, nSel) ==
    LET nW == OutDim(nInW, nPadding, EffKernel(nKernel, nDilation), nStride)
        nH == OutDim(nInH, nPadding, EffKernel(nKernel, nDilation), nStride)
        clampRuns == <<nW, nH>> # <<outW, outH>>
        animRuns ==
            AnimDeps(variant, nAnimate, nW, nH, nAnimSpeed, nJump, nStride)
              # AnimDeps(variant, animate, outW, outH, animSpeed, jumpAnimation, stride)
        sel1 == IF clampRuns THEN ClampSelected(nSel, nW, nH) ELSE nSel
        live1 == IF animRuns THEN ClearInterval(id) ELSE id
        starts == animRuns /\ AnimGuard(nAnimate, nW, nH)
    IN  /\ inW' = nInW /\ inH' = nInH /\ kernel' = nKernel
        /\ stride' = nStride /\ padding' = nPadding /\ dilation' = nDilation
        /\ animate' = nAnimate /\ animSpeed' = nAnimSpeed /\ jumpAnimation' = nJump
        /\ selectedOut' = IF starts THEN <<0, 0>> ELSE sel1
        /\ id' = (starts \/ live1)
        /\ IF starts
           THEN ix' = 0 /\ scanW' = nW /\ total' = nW * nH /\ ticks' = 0
           ELSE IF live1
                THEN UNCHANGED <<ix, scanW, total, ticks>>
                ELSE ix' = 0 /\ scanW' = 0 /\ total' = 0 /\ ticks' = 0
        /\ clamped' = (sel1 # nSel)
        /\ UNCHANGED <<variant, kernelType, mounted, showNumbers, showPadding, showValues>>

-----------------------------------------------------------------------------
(* Event handlers. *)

SetInW(v) ==
    /\ mounted
    /\ Render(v, inH, kernel, stride, padding, dilation,
              animate, animSpeed, jumpAnimation, selectedOut)

SetInH(v) ==
    /\ mounted
    /\ Render(inW, v, kernel, stride, padding, dilation,
              animate, animSpeed, jumpAnimation, selectedOut)

SetKernel(v) ==
    /\ mounted
    /\ Render(inW, inH, v, stride, padding, dilation,
              animate, animSpeed, jumpAnimation, selectedOut)

SetStride(v) ==
    /\ mounted
    /\ Render(inW, inH, kernel, v, padding, dilation,
              animate, animSpeed, jumpAnimation, selectedOut)

SetPadding(v) ==
    /\ mounted
    /\ Render(inW, inH, kernel, stride, v, dilation,
              animate, animSpeed, jumpAnimation, selectedOut)

SetDilation(v) ==
    /\ mounted
    /\ Render(inW, inH, kernel, stride, padding, v,
              animate, animSpeed, jumpAnimation, selectedOut)

applyPreset(preset) ==
    /\ mounted
    /\ variant = "full"
    /\ Render(inW, inH, preset.kernel, preset.stride, preset.padding, preset.dilation,
              animate, animSpeed, jumpAnimation, selectedOut)

\* The "Animate scan" / "Stop animation" button; a disabled button ignores clicks
ClickAnimate ==
    /\ mounted
    /\ IF disabledOut
       THEN UNCHANGED vars
       ELSE Render(inW, inH, kernel, stride, padding, dilation,
                   ~animate, animSpeed, jumpAnimation, selectedOut)

SetAnimSpeed(v) ==
    /\ mounted
    /\ Render(inW, inH, kernel, stride, padding, dilation,
              animate, v, jumpAnimation, selectedOut)

SetJumpAnimation ==
    /\ mounted
    /\ variant = "full"
    /\ Render(inW, inH, kernel, stride, padding, dilation,
              animate, animSpeed, ~jumpAnimation, selectedOut)

\* Variation: a click during a scan moves the scan on to the cell after the clicked one
ClickOutputResync(ox, oy) ==
    /\ mounted
    /\ outW > 0 /\ outH > 0
    /\ ox \in 0..(outW - 1) /\ oy \in 0..(outH - 1)
    /\ selectedOut' = <<ox, oy>>
    /\ ix' = IF id THEN (oy * outW + ox + 1) % total ELSE ix
    /\ clamped' = FALSE
    /\ UNCHANGED <<variant, kernelType, mounted, inW, inH, kernel, stride, padding, dilation,
                   animate, animSpeed, jumpAnimation,
                   showNumbers, showPadding, showValues, id, scanW, total, ticks>>

\* Output cell buttons exist only while both output dimensions are positive
ClickOutput(ox, oy) ==
    /\ mounted
    /\ outW > 0 /\ outH > 0
    /\ ox \in 0..(outW - 1) /\ oy \in 0..(outH - 1)
    /\ Render(inW, inH, kernel, stride, padding, dilation,
              animate, animSpeed, jumpAnimation, <<ox, oy>>)

SetShowNumbers ==
    /\ mounted
    /\ showNumbers' = ~showNumbers
    /\ clamped' = FALSE
    /\ UNCHANGED <<variant, kernelType, mounted, inW, inH, kernel, stride, padding, dilation,
                   animate, animSpeed, jumpAnimation, selectedOut,
                   showPadding, showValues, id, ix, scanW, total, ticks>>

SetShowPadding ==
    /\ mounted
    /\ showPadding' = ~showPadding
    /\ clamped' = FALSE
    /\ UNCHANGED <<variant, kernelType, mounted, inW, inH, kernel, stride, padding, dilation,
                   animate, animSpeed, jumpAnimation, selectedOut,
                   showNumbers, showValues, id, ix, scanW, total, ticks>>

SetShowValues ==
    /\ mounted
    /\ variant = "full"
    /\ showValues' = ~showValues
    /\ clamped' = FALSE
    /\ UNCHANGED <<variant, kernelType, mounted, inW, inH, kernel, stride, padding, dilation,
                   animate, animSpeed, jumpAnimation, selectedOut,
                   showNumbers, showPadding, id, ix, scanW, total, ticks>>

\* The interval callback. It changes selectedOut only, which no effect depends on.
Tick ==
    /\ id
    /\ selectedOut' = TickCoord(ix, scanW)
    /\ ix' = NextIx(ix, total)
    /\ ticks' = IF ticks >= total THEN 1 ELSE ticks + 1
    /\ clamped' = FALSE
    /\ UNCHANGED <<variant, kernelType, mounted, inW, inH, kernel, stride, padding, dilation,
                   animate, animSpeed, jumpAnimation,
                   showNumbers, showPadding, showValues, id, scanW, total>>

\* Teardown: React runs the cleanup of every effect
Unmount ==
    /\ mounted
    /\ mounted' = FALSE
    /\ id' = ClearInterval(id)
    /\ IF id'
       THEN UNCHANGED <<ix, scanW, total, ticks>>
       ELSE ix' = 0 /\ scanW' = 0 /\ total' = 0 /\ ticks' = 0
    /\ clamped' = FALSE
    /\ UNCHANGED <<variant, kernelType, inW, inH, kernel, stride, padding, dilation,
                   animate, animSpeed, jumpAnimation, selectedOut,
                   showNumbers, showPadding, showValues>>

-----------------------------------------------------------------------------
\* The state after the first render and its effects, with the input size
\* sliders moved into the modelled range (the selected cell stays (0,0)).
Init ==
    /\ variant \in {"full", "simple"}
    /\ mounted = TRUE
    /\ inW \in InSizes /\ inH \in InSizes
    /\ kernel = 3 /\ stride = 1 /\ padding = 1 /\ dilation = 1
    /\ animate = FALSE /\ animSpeed = 350 /\ jumpAnimation = TRUE
    /\ selectedOut = <<0, 0>>
    /\ showNumbers = FALSE /\ showPadding = TRUE /\ showValues = FALSE
    /\ kernelType = "edge_detect"
    /\ id = FALSE /\ ix = 0 /\ scanW = 0 /\ total = 0 /\ ticks = 0
    /\ clamped = FALSE

Next ==
    \/ \E v \in InSizes : SetInW(v)
    \/ \E v \in InSizes : SetInH(v)
    \/ \E v \in KernelSizes : SetKernel(v)
    \/ \E v \in Strides : SetStride(v)
    \/ \E v \in Paddings : SetPadding(v)
    \/ \E v \in Dilations : SetDilation(v)
    \/ \E i \in DOMAIN presets : applyPreset(presets[i])
    \/ ClickAnimate
    \/ \E v \in Speeds : SetAnimSpeed(v)
    \/ SetJumpAnimation
    \/ \E ox \in 0..MaxClick, oy \in 0..MaxClick : ClickOutput(ox, oy)
    \/ Tick
    \/ Unmount

Spec == Init /\ [][Next]_vars

\* The events that edit no size hyperparameter, with the display checkboxes
NextDisplay ==
    \/ \E v \in Strides : SetStride(v)
    \/ ClickAnimate
    \/ SetJumpAnimation
    \/ \E ox \in 0..MaxClick, oy \in 0..MaxClick : ClickOutput(ox, oy)
    \/ SetShowNumbers
    \/ SetShowPadding
    \/ SetShowValues
    \/ Tick

SpecDisplay == Init /\ [][NextDisplay]_vars

-----------------------------------------------------------------------------
(* Properties of the scan controller. *)

InBounds(sel) ==
    /\ sel # Null
    /\ 0 <= sel[1] /\ sel[1] < outW
    /\ 0 <= sel[2] /\ sel[2] < outH

GeometryEdited ==
    <<inW, inH, kernel, stride, padding, dilation>>'
        # <<inW, inH, kernel, stride, padding, dilation>>

DimsChanged == <<outW, outH>>' # <<outW, outH>>

StartRequested == ~animate /\ animate'

Index(sel, w) == sel[2] * w + sel[1]

\* C1: in every settled state the selected output coordinate is valid for the
\* current geometry: inside [0,outW) x [0,outH) when it is non-null and both
\* output dimensions are positive, and null when either dimension is <= 0.
C1_SelectedValid ==
    /\ (outW > 0 /\ outH > 0 /\ selectedOut # Null) => InBounds(selectedOut)
    /\ (outW <= 0 \/ outH <= 0) => selectedOut = Null

\* C1 witness: a geometry edit has just made the clamp effect change the selection
C1_Witness == clamped /\ (selectedOut = Null \/ selectedOut[1] = outW - 1)

\* C2 as stated: on a geometry change that leaves both output dimensions
\* positive, in the Idle and in the Scanning state alike, a non-null selected
\* that exceeds the new bounds is clamped per axis to min(value, dimension-1).
C2_ClampInEitherState ==
    [][ ( /\ DimsChanged
          /\ outW' > 0 /\ outH' > 0
          /\ selectedOut # Null
          /\ (selectedOut[1] >= outW' \/ selectedOut[2] >= outH') )
        => selectedOut' = <<Min(selectedOut[1], outW' - 1),
                            Min(selectedOut[2], outH' - 1)>> ]_vars

\* C2 amended: the per-axis clamp is the result while the controller is Idle;
\* while it is Scanning the geometry change restarts the scan and the result
\* is (0,0).
C2_ClampWhenIdle ==
    [][ ( /\ DimsChanged
          /\ outW' > 0 /\ outH' > 0
          /\ selectedOut # Null
          /\ (selectedOut[1] >= outW' \/ selectedOut[2] >= outH') )
        => selectedOut' = IF id THEN <<0, 0>>
                          ELSE <<Min(selectedOut[1], outW' - 1),
                                 Min(selectedOut[2], outH' - 1)>> ]_vars

\* C2 witness: Idle, and the clamp effect has just moved the selection to (1,0)
\* of an output that is now 2 wide
C2_Witness == clamped /\ ~id /\ outW = 2 /\ selectedOut = <<1, 0>>

\* C3 as stated: a geometry change that makes an output dimension non-positive
\* while Scanning clears the timer, makes the running flag false and makes
\* selected null.
C3_ForcedStop ==
    [][ (id /\ (outW' <= 0 \/ outH' <= 0))
        => (~id' /\ ~animate' /\ selectedOut' = Null) ]_vars

\* C4 as stated: the controller moves from Idle to Scanning only as the result
\* of a start request.
C4_OnlyStartRequest == [][ (~id /\ id') => StartRequested ]_vars

\* C5 as stated: while Scanning with unchanged output dimensions every tick
\* moves selected from row-major index i to index (i+1) mod (w*h).
C5_TickSuccessor ==
    [][ Tick => ( /\ selectedOut' # Null
                  /\ Index(selectedOut', outW)
                       = (Index(selectedOut, outW) + 1) % (outW * outH) ) ]_vars

\* C6 as stated: after exactly w*h ticks since the start request selected is
\* (0,0) again.
C6_CycleClosure == [][ (Tick /\ ticks' = total) => selectedOut' = <<0, 0>> ]_vars

Stopped == ~mounted \/ ~animate \/ outW <= 0 \/ outH <= 0

\* C7: once the scan is stopped (stop request, invalid geometry, or teardown)
\* no tick changes selected: selected changes only by a click on an output
\* cell, a geometry edit or a start request.
C7_StopCancelsTick ==
    [][ (Stopped /\ selectedOut' # selectedOut)
        => \/ GeometryEdited
           \/ StartRequested
           \/ \E ox \in 0..MaxClick, oy \in 0..MaxClick : ClickOutput(ox, oy) ]_vars

\* C7 witness: stopped after the scan had moved the selection beyond the cells
\* a click reaches here
C7_Witness ==
    /\ mounted /\ ~animate /\ ~id
    /\ selectedOut # Null /\ selectedOut[1] > MaxClick /\ selectedOut[2] > MaxClick

\* C8: no timer runs while selected is null or out of range, or while an
\* output dimension is non-positive.
C8_TimerHasTarget == id => (outW > 0 /\ outH > 0 /\ InBounds(selectedOut))

\* C8 witness: the timer runs and has moved the selection off (0,0)
C8_Witness == id /\ ticks > 1 /\ selectedOut # <<0, 0>>

\* C9: a start request with both output dimensions positive starts the scan
\* and sets selected to (0,0) whatever it was; with a non-positive output
\* dimension it changes nothing.
C9_StartRequest ==
    [][ (ClickAnimate /\ ~animate)
        => IF outW > 0 /\ outH > 0
           THEN id' /\ animate' /\ selectedOut' = <<0, 0>> /\ ix' = 0
                /\ UNCHANGED <<inW, inH, kernel, stride, padding, dilation>>
           ELSE UNCHANGED vars ]_vars

\* C9 witness: a scan has just been started and no tick has fired yet
C9_Witness == id /\ animate /\ ticks = 0 /\ selectedOut = <<0, 0>>

\* C10 as stated: while Scanning, an edit that leaves outW and outH unchanged
\* (a stride change with the same output size, a display checkbox) changes
\* neither selected nor the scan position and does not restart the scan.
C10_FrameOfScan ==
    [][ ( /\ id
          /\ ~DimsChanged
          /\ \/ stride' # stride
             \/ jumpAnimation' # jumpAnimation
             \/ <<showNumbers, showPadding, showValues>>'
                  # <<showNumbers, showPadding, showValues>> )
        => ( /\ id'
             /\ selectedOut' = selectedOut
             /\ ix' = ix
             /\ ticks' = ticks ) ]_vars

-----------------------------------------------------------------------------
(* The geometry of the layer over the whole range of the kernel, stride,     *)
(* padding and dilation sliders.                                             *)
GeomMaxIn == 5

DefaultIn == 12
KernelSliderMax == 11
StrideSliderMax == 6
PaddingSliderMax == 6
DilationSliderMax == 4

GeomInSizes == (MinIn..GeomMaxIn) \cup {DefaultIn}
GeomKernelSizes == {k \in MinKernel..KernelSliderMax : (k - MinKernel) % KernelStep = 0}
GeomStrides == MinStride..StrideSliderMax
GeomPaddings == MinPadding..PaddingSliderMax
GeomDilations == MinDilation..DilationSliderMax

\* The state after the first render and its effects
InitGeom ==
    /\ variant = "full"
    /\ mounted = TRUE
    /\ inW = DefaultIn /\ inH = DefaultIn
    /\ kernel = 3 /\ stride = 1 /\ padding = 1 /\ dilation = 1
    /\ animate = FALSE /\ animSpeed = 350 /\ jumpAnimation = TRUE
    /\ selectedOut = <<0, 0>>
    /\ showNumbers = FALSE /\ showPadding = TRUE /\ showValues = FALSE
    /\ kernelType = "edge_detect"
    /\ id = FALSE /\ ix = 0 /\ scanW = 0 /\ total = 0 /\ ticks = 0
    /\ clamped = FALSE

NextGeom ==
    \/ \E v \in GeomInSizes : SetInW(v)
    \/ \E v \in GeomInSizes : SetInH(v)
    \/ \E v \in GeomKernelSizes : SetKernel(v)
    \/ \E v \in GeomStrides : SetStride(v)
    \/ \E v \in GeomPaddings : SetPadding(v)
    \/ \E v \in GeomDilations : SetDilation(v)
    \/ \E i \in DOMAIN presets : applyPreset(presets[i])
    \/ \E ox \in 0..MaxClick, oy \in 0..MaxClick : ClickOutput(ox, oy)

SpecGeom == InitGeom /\ [][NextGeom]_vars

\* The mathematical floor of n / s for s > 0: the integer q with q <= n / s < q + 1
IsFloor(q, n, s) == q * s <= n /\ n < (q + 1) * s

\* C11: each output dimension is floor((in + 2 * padding - effectiveKernel) / stride) + 1
\* with the mathematical floor, also for a negative numerator; the default state
\* (12, padding 1, kernel 3, dilation 1, stride 1) gives 12
C11_OutputDims ==
    /\ IsFloor(outW - 1, inW + 2 * padding - effKernel, stride)
    /\ IsFloor(outH - 1, inH + 2 * padding - effKernel, stride)
    /\ (inW = 12 /\ padding = 1 /\ kernel = 3 /\ dilation = 1 /\ stride = 1) => outW = 12

\* A negative numerator that the stride does not divide, after a slider edit
C11_Witness ==
    /\ inW + 2 * padding - effKernel < 0
    /\ (inW + 2 * padding - effKernel) % stride # 0
    /\ outW <= 0 /\ selectedOut = Null

-----------------------------------------------------------------------------
(* Sample data and the convolution of the full variant. Rows and cells are   *)
(* 0-based in the component and 1-based in the sequences below.              *)

\* Variation: the 1 of the identity preset sits in the top-left corner
kernelTypesCorner ==
    [ edge_detect |-> [weights |-> << <<-1, -1, -1>>, <<-1, 8, -1>>, <<-1, -1, -1>> >>, den |-> 1],
      blur        |-> [weights |-> << <<1, 1, 1>>, <<1, 1, 1>>, <<1, 1, 1>> >>, den |-> 9],
      sharpen     |-> [weights |-> << <<0, -1, 0>>, <<-1, 5, -1>>, <<0, -1, 0>> >>, den |-> 1],
      identity    |-> [weights |-> << <<1, 0, 0>>, <<0, 0, 0>>, <<0, 0, 0>> >>, den |-> 1],
      emboss      |-> [weights |-> << <<-2, -1, 0>>, <<-1, 1, 1>>, <<0, 1, 2>> >>, den |-> 1] ]

\* weights / den are the weights of the component (den is 9 for the 1/9 of blur)
kernelTypes ==
    [ edge_detect |-> [weights |-> << <<-1, -1, -1>>, <<-1, 8, -1>>, <<-1, -1, -1>> >>, den |-> 1],
      blur        |-> [weights |-> << <<1, 1, 1>>, <<1, 1, 1>>, <<1, 1, 1>> >>, den |-> 9],
      sharpen     |-> [weights |-> << <<0, -1, 0>>, <<-1, 5, -1>>, <<0, -1, 0>> >>, den |-> 1],
      identity    |-> [weights |-> << <<0, 0, 0>>, <<0, 1, 0>>, <<0, 0, 0>> >>, den |-> 1],
      emboss      |-> [weights |-> << <<-2, -1, 0>>, <<-1, 1, 1>>, <<0, 1, 2>> >>, den |-> 1] ]

currentKernel == kernelTypes[kernelType]

\* Math.round(num / den) for den > 0: the floor of num / den + 1/2
MathRound(num, den) == (2 * num + den) \div (2 * den)

\* v = Math.round(255 * (1 - distFromCenter / maxDist)), where
\* distFromCenter / maxDist = sqrt(a / b) for a = (2x - w)^2 + (2y - h)^2 and
\* b = w^2 + h^2: v - 1/2 <= 255 - 255 * sqrt(a / b) < v + 1/2, squared.
\* Exact arithmetic and the doubles of the component agree on every cell for
\* input sizes 4..11; at size 12 and 24 a cell on the tie x.5 comes out one less
\* in doubles.
RoundsTo(v, a, b) ==
    /\ 510 * 510 * a <= (511 - 2 * v) * (511 - 2 * v) * b
    /\ 509 - 2 * v < 0 \/ 510 * 510 * a > (509 - 2 * v) * (509 - 2 * v) * b

PatternValue(x, y, w, h) ==
    LET a == (2 * x - w) * (2 * x - w) + (2 * y - h) * (2 * y - h)
        b == w * w + h * h
    IN  Max(0, Min(255, CHOOSE v \in 0..255 : RoundsTo(v, a, b)))

RECURSIVE PatternRow(_, _, _, _)
PatternRow(x, y, w, h) ==
    IF x >= w THEN <<>> ELSE <<PatternValue(x, y, w, h)>> \o PatternRow(x + 1, y, w, h)

RECURSIVE PatternRows(_, _, _)
PatternRows(y, w, h) ==
    IF y >= h THEN <<>> ELSE <<PatternRow(0, y, w, h)>> \o PatternRows(y + 1, w, h)

generateInputData == PatternRows(0, inW, inH)

inputData == generateInputData

\* Variation: the field ends one cell further on both axes
rfBoundsWide(ox, oy) ==
    [startX |-> ox * stride, startY |-> oy * stride,
     endX |-> ox * stride + effKernel, endY |-> oy * stride + effKernel]

rfBounds(ox, oy) ==
    [startX |-> ox * stride, startY |-> oy * stride,
     endX |-> ox * stride + effKernel - 1, endY |-> oy * stride + effKernel - 1]

\* Variation: the upper limits of the padding test are inclusive
ReadIndexInclusive(inputX, inputY) ==
    IF inputY >= padding /\ inputY <= padding + inH /\ inputX >= padding /\ inputX <= padding + inW
    THEN <<inputY - padding, inputX - padding>>
    ELSE Null

\* The cell <<row, column>> of inputData that a tap at padded (inputX, inputY)
\* reads, Null for a tap in the padding
ReadIndex(inputX, inputY) ==
    IF inputY >= padding /\ inputY < padding + inH /\ inputX >= padding /\ inputX < padding + inW
    THEN <<inputY - padding, inputX - padding>>
    ELSE Null

InputValue(data, inputX, inputY) ==
    LET r == ReadIndex(inputX, inputY)
    IN  IF r = Null THEN 0 ELSE data[r[1] + 1][r[2] + 1]

\* Variation: the taps are taken next to each other, whatever the dilation
TapTermDense(data, w, rf, kx, ky) ==
    IF ky < Len(w) /\ kx < Len(w[1])
    THEN InputValue(data, rf.startX + kx, rf.startY + ky) * w[ky + 1][kx + 1]
    ELSE 0

\* What one pass of the inner loop adds to sum
TapTerm(data, w, rf, kx, ky) ==
    IF ky < Len(w) /\ kx < Len(w[1])
    THEN InputValue(data, rf.startX + kx * dilation, rf.startY + ky * dilation) * w[ky + 1][kx + 1]
    ELSE 0

RECURSIVE SumKx(_, _, _, _, _)
SumKx(data, w, rf, kx, ky) ==
    IF kx >= kernel THEN 0 ELSE TapTerm(data, w, rf, kx, ky) + SumKx(data, w, rf, kx + 1, ky)

RECURSIVE SumKy(_, _, _, _)
SumKy(data, w, rf, ky) ==
    IF ky >= kernel THEN 0 ELSE SumKx(data, w, rf, 0, ky) + SumKy(data, w, rf, ky + 1)

RECURSIVE ConvRow(_, _, _, _)
ConvRow(data, k, ox, oy) ==
    IF ox >= outW THEN <<>>
    ELSE <<MathRound(SumKy(data, k.weights, rfBounds(ox, oy), 0), k.den)>> \o ConvRow(data, k, ox + 1, oy)

RECURSIVE ConvRows(_, _, _)
ConvRows(data, k, oy) ==
    IF oy >= outH THEN <<>> ELSE <<ConvRow(data, k, 0, oy)>> \o ConvRows(data, k, oy + 1)

computeConvolution == ConvRows(inputData, currentKernel, 0)

outputData == computeConvolution

\* The cells of inputData that one run of computeConvolution reads: one read
\* per pass of the inner loop whose tap is outside the padding
ConvReads ==
    { ReadIndex(rfBounds(c[1], c[2]).startX + t[1] * dilation,
                rfBounds(c[1], c[2]).startY + t[2] * dilation) :
        c \in (0..(outW - 1)) \X (0..(outH - 1)),
        t \in (0..(kernel - 1)) \X (0..(kernel - 1)) } \ {Null}

\* The kernel select, enabled by "Show values"
SetKernelType(v) ==
    /\ mounted
    /\ variant = "full"
    /\ showValues
    /\ kernelType' = v
    /\ clamped' = FALSE
    /\ UNCHANGED <<variant, mounted, inW, inH, kernel, stride, padding, dilation,
                   animate, animSpeed, jumpAnimation, selectedOut,
                   showNumbers, showPadding, showValues, id, ix, scanW, total, ticks>>

InitConv == Init /\ variant = "full"

NextConv ==
    \/ \E v \in InSizes : SetInW(v)
    \/ \E v \in InSizes : SetInH(v)
    \/ \E v \in KernelSizes : SetKernel(v)
    \/ \E v \in Strides : SetStride(v)
    \/ \E v \in Paddings : SetPadding(v)
    \/ \E v \in Dilations : SetDilation(v)
    \/ \E i \in DOMAIN presets : applyPreset(presets[i])
    \/ SetShowValues
    \/ \E v \in DOMAIN kernelTypes : SetKernelType(v)

SpecConv == InitConv /\ [][NextConv]_vars

RECURSIVE SetSum(_, _)
SetSum(S, f) ==
    IF S = {} THEN 0 ELSE LET e == CHOOSE e \in S : TRUE IN f[e] + SetSum(S \ {e}, f)

\* The value of the padded input at (px, py): the cell of the input grid inside
\* the unpadded region, 0 in the padding
Sample(grid, px, py) ==
    IF px - padding \in 0..(inW - 1) /\ py - padding \in 0..(inH - 1)
    THEN grid[py - padding + 1][px - padding + 1]
    ELSE 0

\* The taps of a kernelSize x kernelSize kernel that a 3x3 weight matrix covers
WeightedTaps == {t \in (0..(kernel - 1)) \X (0..(kernel - 1)) : t[1] < 3 /\ t[2] < 3}

\* C12: with an integer-valued 3x3 weight matrix, every output cell (ox, oy) is
\* the sum over the taps (kx, ky) with kx < 3 and ky < 3 of
\* weights[ky][kx] * sample(ox * stride + kx * dilation, oy * stride + ky * dilation);
\* taps with an index >= 3 contribute nothing
C12_WeightedSum ==
    LET grid == inputData
        out == outputData
        w == currentKernel.weights
    IN  currentKernel.den = 1 =>
            \A ox \in 0..(outW - 1), oy \in 0..(outH - 1) :
                out[oy + 1][ox + 1] =
                    SetSum(WeightedTaps,
                           [t \in WeightedTaps |->
                               w[t[2] + 1][t[1] + 1]
                                 * Sample(grid, ox * stride + t[1] * dilation,
                                                oy * stride + t[2] * dilation)])

\* A 5x5 dilated kernel of integer weights gives a non-zero output cell
C12_Witness ==
    /\ kernel = 5 /\ dilation = 2 /\ kernelType = "emboss"
    /\ outW > 0 /\ outH > 0
    /\ outputData[1][1] # 0

\* Every output cell whose receptive field has its centre over the unpadded
\* input holds the input value under that centre
CentreReproduced ==
    LET grid == inputData
        out == outputData
    IN  \A ox \in 0..(outW - 1), oy \in 0..(outH - 1) :
            LET rf == rfBounds(ox, oy)
                cx == ((rf.startX + rf.endX) \div 2) - padding
                cy == ((rf.startY + rf.endY) \div 2) - padding
            IN  (cx \in 0..(inW - 1) /\ cy \in 0..(inH - 1)) =>
                    out[oy + 1][ox + 1] = grid[cy + 1][cx + 1]

IdentityLawSetting == kernelType = "identity" /\ stride = 1 /\ dilation = 1 /\ padding >= 1

\* C13 as stated: with the identity preset, stride 1, dilation 1 and padding >= 1,
\* for every kernelSize, every interior output cell reproduces the input value
\* under the centre of its receptive field
C13_IdentityAnyKernel == IdentityLawSetting => CentreReproduced

\* C13 amended: the same law for kernelSize = 3; with padding 1 that is
\* output[oy][ox] = InputGrid[oy][ox]
C13_IdentityKernel3 ==
    (IdentityLawSetting /\ kernel = 3) =>
        /\ CentreReproduced
        /\ padding = 1 =>
              \A ox \in 0..(outW - 1), oy \in 0..(outH - 1) :
                  outputData[oy + 1][ox + 1] = inputData[oy + 1][ox + 1]

\* The identity preset has reproduced a non-zero input cell
C13_Witness ==
    /\ IdentityLawSetting /\ kernel = 3
    /\ outW >= 2 /\ outH >= 2
    /\ outputData[2][2] # 0

\* C14: the convolution reads the input grid only at rows 0..inputHeight-1 and
\* columns 0..inputWidth-1, returns outH rows of outW cells when both dimensions
\* are positive, and a grid without cells when either is <= 0
C14_Total ==
    /\ \A r \in ConvReads : r[1] \in 0..(inH - 1) /\ r[2] \in 0..(inW - 1)
    /\ LET out == outputData
       IN  IF outW > 0 /\ outH > 0
           THEN Len(out) = outH /\ \A i \in 1..Len(out) : Len(out[i]) = outW
           ELSE \A i \in 1..Len(out) : Len(out[i]) = 0

\* A run with one dimension positive and the other not: rows without cells
C14_Witness == outW <= 0 /\ outH > 0 /\ Len(outputData) = outH /\ ConvReads = {}

-----------------------------------------------------------------------------
(* Parameter validation of the full variant. An issue is its kind and the    *)
(* two numbers its message shows.                                            *)

\* Variation: an effective kernel as large as the padded input is an issue too
validateParamsLoose ==
    (IF effKernel >= inW + 2 * padding
     THEN << <<"width", effKernel, inW + 2 * padding>> >> ELSE <<>>)
    \o (IF effKernel >= inH + 2 * padding
        THEN << <<"height", effKernel, inH + 2 * padding>> >> ELSE <<>>)
    \o (IF outW <= 0 \/ outH <= 0 THEN << <<"no_output", 0, 0>> >> ELSE <<>>)

validateParams ==
    (IF effKernel > inW + 2 * padding
     THEN << <<"width", effKernel, inW + 2 * padding>> >> ELSE <<>>)
    \o (IF effKernel > inH + 2 * padding
        THEN << <<"height", effKernel, inH + 2 * padding>> >> ELSE <<>>)
    \o (IF outW <= 0 \/ outH <= 0 THEN << <<"no_output", 0, 0>> >> ELSE <<>>)

validationIssues == validateParams

IssueKinds == [i \in 1..Len(validationIssues) |-> validationIssues[i][1]]

IssueDue(kind) ==
    CASE kind = "width" -> effKernel > inW + 2 * padding
      [] kind = "height" -> effKernel > inH + 2 * padding
      [] kind = "no_output" -> outW <= 0 \/ outH <= 0

\* C15: the diagnostics are, in this order, the width diagnostic exactly when
\* effectiveKernel > inputWidth + 2 * padding, the height diagnostic exactly when
\* effectiveKernel > inputHeight + 2 * padding, the no-output diagnostic exactly
\* when outW <= 0 or outH <= 0; inputWidth 4, padding 0, kernelSize 5, dilation 1
\* yields the width diagnostic
C15_Diagnostics ==
    /\ IssueKinds = SelectSeq(<<"width", "height", "no_output">>, IssueDue)
    /\ (inW = 4 /\ padding = 0 /\ kernel = 5 /\ dilation = 1) =>
           validationIssues[1] = <<"width", 5, 4>>

\* Width and no-output diagnostics without the height diagnostic
C15_Witness ==
    /\ inW = 4 /\ padding = 0 /\ kernel = 5 /\ dilation = 1 /\ inH = 12
    /\ IssueKinds = <<"width", "no_output">>

-----------------------------------------------------------------------------
(* The receptive field of the selected cell and the marks of the padded      *)
(* input grid. (px, py) is a cell of the padded input.                       *)
padW == inW + 2 * padding
padH == inH + 2 * padding

selRF == IF selectedOut = Null THEN Null ELSE rfBounds(selectedOut[1], selectedOut[2])

isValidKernelPosition(px, py) ==
    IF px < padding \/ px >= padding + inW \/ py < padding \/ py >= padding + inH
    THEN FALSE
    ELSE (px - padding) % stride = 0 /\ (py - padding) % stride = 0

\* C16: every padded-input cell that isValidKernelPosition marks is the top-left
\* anchor (startX, startY) of the receptive field of some output coordinate in
\* [0, outW) x [0, outH)
C16_MarkedIsAnchor ==
    \A px \in 0..(padW - 1), py \in 0..(padH - 1) :
        isValidKernelPosition(px, py) =>
            \E ox \in 0..(outW - 1), oy \in 0..(outH - 1) :
                rfBounds(ox, oy).startX = px /\ rfBounds(ox, oy).startY = py

\* Variation: every cell of the receptive field counts as a tap
isInDilatedKernelSolid(px, py) ==
    IF selRF = Null THEN FALSE
    ELSE LET relX == px - selRF.startX
             relY == py - selRF.startY
         IN  ~(relX < 0 \/ relX >= effKernel \/ relY < 0 \/ relY >= effKernel)

isInDilatedKernel(px, py) ==
    IF selRF = Null THEN FALSE
    ELSE LET relX == px - selRF.startX
             relY == py - selRF.startY
         IN  IF relX < 0 \/ relX >= effKernel \/ relY < 0 \/ relY >= effKernel
             THEN FALSE
             ELSE relX % dilation = 0 /\ relY % dilation = 0

\* The cells marked as taps, looked for in the receptive field and the ring of
\* cells around it
TapSet ==
    {c \in ((selRF.startX - 1)..(selRF.endX + 1)) \X ((selRF.startY - 1)..(selRF.endY + 1)) :
        isInDilatedKernel(c[1], c[2])}

\* C17: the kernel tap set of a receptive field has exactly kernelSize^2 elements
C17_TapCount == selRF # Null => Cardinality(TapSet) = kernel * kernel

\* The taps of a dilated kernel larger than 3x3, for a clicked cell
C17_Witness ==
    /\ selectedOut = <<1, 1>> /\ kernel = 5 /\ dilation = 3
    /\ Cardinality(TapSet) = 25

isKernelCenter(px, py) ==
    IF selRF = Null THEN FALSE
    ELSE LET centerX == (selRF.startX + selRF.endX) \div 2
             centerY == (selRF.startY + selRF.endY) \div 2
         IN  px = centerX /\ py = centerY

\* C18: for odd kernelSize the effective kernel size is odd and >= kernelSize, and
\* the cell marked as kernel centre is the exact midpoint of the receptive field
\* on both axes: centre - start = end - centre
C18_CentreIsMidpoint ==
    kernel % 2 = 1 =>
        /\ effKernel % 2 = 1 /\ effKernel >= kernel
        /\ selRF # Null =>
              /\ \E px \in selRF.startX..selRF.endX, py \in selRF.startY..selRF.endY :
                     isKernelCenter(px, py)
              /\ \A px \in selRF.startX..selRF.endX, py \in selRF.startY..selRF.endY :
                     isKernelCenter(px, py) =>
                         /\ px - selRF.startX = selRF.endX - px
                         /\ py - selRF.startY = selRF.endY - py

\* The centre of a dilated receptive field away from the origin
C18_Witness ==
    /\ selectedOut = <<1, 0>> /\ kernel = 3 /\ dilation = 2 /\ stride = 2
    /\ isKernelCenter(4, 2)

-----------------------------------------------------------------------------
\* C19: while scanning, a click on an output cell changes neither the timer nor
\* its counter, and every tick selects the coordinate of the counter, whatever
\* cell is selected, and moves the counter on in row-major order
C19_ClickKeepsScan ==
    /\ [][ (id /\ \E ox \in 0..MaxClick, oy \in 0..MaxClick : ClickOutput(ox, oy))
           => (id' /\ ix' = ix /\ scanW' = scanW /\ total' = total /\ ticks' = ticks) ]_vars
    /\ [][ Tick => /\ selectedOut' = <<ix % outW, ix \div outW>>
                   /\ ix' = (ix + 1) % (outW * outH) ]_vars

\* The selected cell is not the one the last tick selected: it was clicked
\* during the scan
C19_Witness ==
    /\ id /\ ticks > 1
    /\ selectedOut # TickCoord((ix + total - 1) % total, scanW)

-----------------------------------------------------------------------------
\* C20: with positive output dimensions the receptive field of every output
\* coordinate lies inside the padded input (0 <= start, end <= in + 2 * padding - 1
\* on both axes), and the output dimensions are maximal: the field of ox = outW,
\* or of oy = outH, ends past the padded input
C20_FieldsInside ==
    (outW > 0 /\ outH > 0) =>
        /\ \A ox \in 0..(outW - 1), oy \in 0..(outH - 1) :
               /\ 0 <= rfBounds(ox, oy).startX /\ rfBounds(ox, oy).endX <= inW + 2 * padding - 1
               /\ 0 <= rfBounds(ox, oy).startY /\ rfBounds(ox, oy).endY <= inH + 2 * padding - 1
        /\ rfBounds(outW, 0).endX > inW + 2 * padding - 1
        /\ rfBounds(0, outH).endY > inH + 2 * padding - 1

\* The last field of a row stops short of the last padded column, and the next
\* one would not fit
C20_Witness ==
    /\ outW >= 2 /\ outH >= 2 /\ stride = 3
    /\ rfBounds(outW - 1, 0).endX < padW - 1
    /\ rfBounds(outW, 0).endX > padW - 1

-----------------------------------------------------------------------------
IssuePresent(kind) == \E i \in 1..Len(validationIssues) : validationIssues[i][1] = kind

\* C21: the no-output diagnostic is present exactly when the width or the height
\* diagnostic (effective kernel larger than the padded input) is present; hence
\* the list of diagnostics is non-empty exactly when the start button is disabled
C21_NoOutputIffKernelLarger ==
    /\ IssuePresent("no_output") <=> (IssuePresent("width") \/ IssuePresent("height"))
    /\ Len(validationIssues) > 0 <=> disabledOut

\* The kernel exceeds the padded width by one cell under a stride of 2, while
\* the height still fits
C21_Witness ==
    /\ stride = 2 /\ inW + 2 * padding - effKernel = -1
    /\ IssuePresent("width") /\ ~IssuePresent("height") /\ IssuePresent("no_output")
    /\ disabledOut /\ selectedOut = Null

====
